---- MODULE Spec2Model ----
(***************************************************************************)
(* Model of price_scraper.py: the PriceScraper class (get_exchange_rate,   *)
(* scrape_products, convert_prices, the export collaborators) and main().  *)
(*                                                                         *)
(* Representation choices                                                  *)
(*  - Text that the code transforms (the two prompts, the price text, the  *)
(*    availability text) is a sequence of one-character strings, so that   *)
(*    strip / upper / replace / float / isdigit / int are computed.        *)
(*  - Amounts are held in hundredths (51.77 is 5177) and rates as exact    *)
(*    fractions num/den of the table entries in hundredths; round(x, k) is *)
(*    computed on the exact fraction.  Binary floating point differs from  *)
(*    this only in the last bits of the unrounded product.                 *)
(*  - The pound glyph of the replace() chain is the token "<pound>".       *)
(***************************************************************************)
EXTENDS Integers, Sequences, FiniteSets, TLC

VARIABLES
    pc,                 \* position of main() / of the method being run
    currency_input,     \* what the first input() returned
    target_currency,    \* main's target_currency / convert_prices' argument
    max_products,       \* main's max_products after parsing
    response,           \* outcome of session.get + raise_for_status
    product_containers, \* soup.find_all('article', class_='product_pod')
    i,                  \* scrape loop: index of the next container (1-based)
    products,           \* scrape_products' list / convert_prices' argument
    j,                  \* convert loop: index of the next product (1-based)
    converted_products, \* convert_prices' list
    timestamp,          \* convert_prices' timestamp local
    exchange_rate,      \* convert_prices' exchange_rate local (unrounded)
    now,                \* the wall clock read by datetime.now()
    written,            \* export destinations written so far
    calls,              \* methods of the scraper invoked so far, in order
    log                 \* lines printed so far (message kind and number)

vars == <<pc, currency_input, target_currency, max_products, response,
          product_containers, i, products, j, converted_products, timestamp,
          exchange_rate, now, written, calls, log>>

-----------------------------------------------------------------------------
(* Bounds of the model *)

MaxContainers == 2
MaxBatch == 3
MaxClock == 2

-----------------------------------------------------------------------------
(* Text helpers *)

LowerChars == <<"a","b","c","d","e","f","g","h","i","j","k","l","m",
                "n","o","p","q","r","s","t","u","v","w","x","y","z">>
UpperChars == <<"A","B","C","D","E","F","G","H","I","J","K","L","M",
                "N","O","P","Q","R","S","T","U","V","W","X","Y","Z">>
Digits == <<"0","1","2","3","4","5","6","7","8","9">>
Whitespace == {" ", "\t"}

IsDigitChar(c) == \E d \in 1..Len(Digits) : Digits[d] = c
DigitVal(c) == (CHOOSE d \in 1..Len(Digits) : Digits[d] = c) - 1

UpperChar(c) ==
    IF \E k \in 1..Len(LowerChars) : LowerChars[k] = c
    THEN UpperChars[CHOOSE k \in 1..Len(LowerChars) : LowerChars[k] = c]
    ELSE c

\* str.upper()
Upper(s) == [k \in 1..Len(s) |-> UpperChar(s[k])]

\* the first position from k on that holds no whitespace
RECURSIVE FirstKept(_, _)
FirstKept(s, k) ==
    IF k > Len(s) \/ s[k] \notin Whitespace THEN k ELSE FirstKept(s, k + 1)

\* the last position up to k that holds no whitespace
RECURSIVE LastKept(_, _)
LastKept(s, k) ==
    IF k < 1 \/ s[k] \notin Whitespace THEN k ELSE LastKept(s, k - 1)

\* str.strip()
Strip(s) == SubSeq(s, FirstKept(s, 1), LastKept(s, Len(s)))

\* the characters of a text from position k on, as one string value
RECURSIVE JoinFrom(_, _)
JoinFrom(s, k) == IF k > Len(s) THEN "" ELSE s[k] \o JoinFrom(s, k + 1)

\* the characters of a text as one string value
Join(s) == JoinFrom(s, 1)

\* str.replace(glyph, '') for a one-character glyph
Remove(s, glyph) == SelectSeq(s, LAMBDA c : c # glyph)

\* str.isdigit()
IsDigitText(s) == s # <<>> /\ \A k \in 1..Len(s) : IsDigitChar(s[k])

\* int() of a text of digits, read up to position k
RECURSIVE ParseIntUpTo(_, _)
ParseIntUpTo(s, k) ==
    IF k = 0 THEN 0 ELSE 10 * ParseIntUpTo(s, k - 1) + DigitVal(s[k])

ParseInt(s) == ParseIntUpTo(s, Len(s))

\* float() of a text: digits with at most one point and at least one digit;
\* anything else raises ValueError.  The value is returned in hundredths.
DotCount(s) == Cardinality({k \in 1..Len(s) : s[k] = "."})
IsFloatText(s) ==
    LET t == Strip(s)
    IN  /\ \A k \in 1..Len(t) : IsDigitChar(t[k]) \/ t[k] = "."
        /\ DotCount(t) <= 1
        /\ \E k \in 1..Len(t) : IsDigitChar(t[k])

ParseFloatStripped(s) ==
    LET dot  == IF DotCount(s) = 1
                THEN CHOOSE k \in 1..Len(s) : s[k] = "."
                ELSE Len(s) + 1
        int  == SubSeq(s, 1, dot - 1)
        frac == SubSeq(s, dot + 1, Len(s))
        f1   == IF Len(frac) >= 1 THEN DigitVal(frac[1]) ELSE 0
        f2   == IF Len(frac) >= 2 THEN DigitVal(frac[2]) ELSE 0
    IN  100 * ParseInt(int) + 10 * f1 + f2

ParseFloat(s) == ParseFloatStripped(Strip(s))

\* Round cutting the fraction off instead of rounding
Round_Truncating(n, d) == n \div d

\* round(n / d) to the nearest integer, ties to even (n >= 0, d > 0)
Round(n, d) ==
    LET q == n \div d
        r == n % d
    IN  IF 2 * r < d THEN q
        ELSE IF 2 * r > d THEN q + 1
        ELSE IF q % 2 = 0 THEN q ELSE q + 1

-----------------------------------------------------------------------------
(* Rate table and currency converter *)

\* 1.0 in the unit the table is held in (hundredths)
RateScale == 100

\* self.exchange_rates, in hundredths
exchange_rates ==
    [USD |-> 100, KES |-> 15000, EUR |-> 85, GBP |-> 73,
     JPY |-> 11000, CAD |-> 125, AUD |-> 135, INR |-> 7500]

\* self.exchange_rates.get(code, 1.0)
RateOrDefault(code) ==
    IF code \in DOMAIN exchange_rates THEN exchange_rates[code] ELSE RateScale

\* get_exchange_rate dividing the wrong way round
get_exchange_rate_Inverted(from_currency, to_currency) ==
    IF from_currency = to_currency
    THEN [num |-> 1, den |-> 1]
    ELSE [num |-> RateOrDefault(from_currency),
          den |-> RateOrDefault(to_currency)]

\* get_exchange_rate(from_currency, to_currency): the fraction num / den
get_exchange_rate(from_currency, to_currency) ==
    IF from_currency = to_currency
    THEN [num |-> 1, den |-> 1]
    ELSE [num |-> RateOrDefault(to_currency),
          den |-> RateOrDefault(from_currency)]

\* the exchange_rate local before any record has been processed
NoRate == [num |-> 0, den |-> 1]

-----------------------------------------------------------------------------
(* Record extractor: the body of the scrape loop for one container *)

NoProduct ==
    [name |-> "", original_price |-> [tag |-> "absent", cents |-> 0],
     original_currency |-> "", rating |-> "", availability |-> ""]

\* price_text.replace(pound, '').replace('$', '').replace(euro, '')
StripCurrencySymbols(price_text) ==
    Remove(Remove(Remove(price_text, "<pound>"), "$"), "<euro>")

\* lines 109-145: [ok, error, product] for one container
ExtractContainer(container) ==
    IF ~container.h3 \/ ~container.a
    THEN [ok |-> FALSE, error |-> "AttributeError", product |-> NoProduct]
    ELSE
    LET product_name == IF container.title = <<>> THEN "Unknown Product"
                        ELSE container.title[1]
        price_text   == IF container.price = <<>> THEN <<>>
                        ELSE StripCurrencySymbols(Strip(container.price[1]))
        price_raises == container.price # <<>> /\ ~IsFloatText(price_text)
        price_value  == IF container.price = <<>> THEN 0
                        ELSE ParseFloat(price_text)
        rating_raises == container.rating # <<>> /\ Len(container.rating[1]) < 2
        rating       == IF container.rating = <<>> THEN "No rating"
                        ELSE container.rating[1][2]
        availability == IF container.availability = <<>> THEN "Unknown"
                        ELSE Join(Strip(container.availability[1]))
    IN  IF price_raises
        THEN [ok |-> FALSE, error |-> "ValueError", product |-> NoProduct]
        ELSE IF rating_raises
        THEN [ok |-> FALSE, error |-> "IndexError", product |-> NoProduct]
        ELSE [ok |-> TRUE, error |-> "",
              product |-> [name |-> product_name,
                           original_price |-> [tag |-> "float",
                                               cents |-> price_value],
                           original_currency |-> "GBP",
                           rating |-> rating,
                           availability |-> availability]]

-----------------------------------------------------------------------------
(* Converter: the body of the convert loop for one product *)

NoConverted ==
    [name |-> "", original_price |-> [tag |-> "absent", cents |-> 0],
     original_currency |-> "", rating |-> "", availability |-> "",
     converted_price |-> 0, target_currency |-> "", exchange_rate |-> 0,
     conversion_timestamp |-> 0]

\* ConvertProduct emitting a zero-priced record where the price does not
\* convert
ConvertProduct_ZeroOnError(product, target, ts, prev) ==
    LET rate  == get_exchange_rate(product.original_currency, target)
        cents == IF product.original_price.tag = "float"
                 THEN product.original_price.cents ELSE 0
    IN  [ok |-> TRUE, error |-> "", rate |-> rate,
         record |->
           [name |-> product.name,
            original_price |-> product.original_price,
            original_currency |-> product.original_currency,
            rating |-> product.rating,
            availability |-> product.availability,
            converted_price |-> Round(cents * rate.num, rate.den),
            target_currency |-> target,
            exchange_rate |-> Round(rate.num * 10000, rate.den),
            conversion_timestamp |-> ts]]

\* lines 174-197: [ok, error, rate, record] for one product; rate is the
\* value of the exchange_rate local afterwards (prev when line 179 was not
\* reached)
ConvertProduct(product, target, ts, prev) ==
    IF product.original_price.tag = "absent"
    THEN [ok |-> FALSE, error |-> "KeyError", rate |-> prev,
          record |-> NoConverted]
    ELSE
    LET rate == get_exchange_rate(product.original_currency, target)
    IN  IF product.original_price.tag # "float"
        THEN [ok |-> FALSE, error |-> "TypeError", rate |-> rate,
              record |-> NoConverted]
        ELSE [ok |-> TRUE, error |-> "", rate |-> rate,
              record |->
                [name |-> product.name,
                 original_price |-> product.original_price,
                 original_currency |-> product.original_currency,
                 rating |-> product.rating,
                 availability |-> product.availability,
                 converted_price |->
                     Round(product.original_price.cents * rate.num, rate.den),
                 target_currency |-> target,
                 exchange_rate |-> Round(rate.num * 10000, rate.den),
                 conversion_timestamp |-> ts]]

-----------------------------------------------------------------------------
(* Inputs the environment can supply *)

\* what the operator can type at the currency prompt
RawCurrencyInputs ==
    { <<>>,
      <<"K","E","S">>,
      <<" ","u","s","d"," ">>,
      <<"g","b","p">>,
      <<"x","y","z">>,
      <<"E","U","R","O">> }

\* what the operator can type at the number-of-products prompt
RawMaxInputs ==
    { <<>>, <<"0">>, <<"1">>, <<" ","2"," ">>, <<"a">>, <<"-","1">> }

\* the ways session.get / raise_for_status can raise RequestException
FetchFailures == {"Timeout", "ConnectionError", "HTTPError"}

WellFormed ==
    [h3 |-> TRUE, a |-> TRUE, title |-> <<"A Light in the Attic">>,
     price |-> << <<"<pound>","5","1",".","7","7">> >>,
     rating |-> << <<"star-rating","Three">> >>,
     availability |-> << <<" ","I","n"," ","s","t","o","c","k"," ">> >>]

\* the product containers a page can hold
Containers ==
    { WellFormed,
      [WellFormed EXCEPT !.title = <<"Soumission">>,
                         !.price = << <<" ","$","5","0",".","1"," ">> >>,
                         !.rating = << <<"star-rating","One">> >>],
      [WellFormed EXCEPT !.title = <<>>, !.rating = <<>>,
                         !.availability = <<>>],
      [WellFormed EXCEPT !.price = <<>>],
      [WellFormed EXCEPT !.price = << <<"N","/","A">> >>],
      [WellFormed EXCEPT !.price = << <<"<pound>","1",",","2","3","4">> >>],
      [WellFormed EXCEPT !.h3 = FALSE],
      [WellFormed EXCEPT !.a = FALSE],
      [WellFormed EXCEPT !.rating = << <<"star-rating">> >>] }

RECURSIVE SeqsUpTo(_, _)
SeqsUpTo(S, n) ==
    IF n = 0 THEN { <<>> }
    ELSE LET shorter == SeqsUpTo(S, n - 1)
         IN  shorter \cup { Append(q, x) : q \in shorter, x \in S }

Documents == SeqsUpTo(Containers, MaxContainers)

\* what the loop body makes of each container a page can hold
Extraction == [c \in Containers |-> ExtractContainer(c)]

-----------------------------------------------------------------------------
(* main() and the methods it runs *)

DefaultCurrency == "KES"
DefaultMaxProducts == 10

Line(msg, n) == [msg |-> msg, n |-> n]

Init ==
    /\ pc = "Idle"
    /\ currency_input = <<>>
    /\ target_currency = ""
    /\ max_products = 0
    /\ response = "none"
    /\ product_containers = <<>>
    /\ i = 1
    /\ products = <<>>
    /\ j = 1
    /\ converted_products = <<>>
    /\ timestamp = 0
    /\ exchange_rate = NoRate
    /\ now = 0
    /\ written = {}
    /\ calls = <<>>
    /\ log = <<>>

\* ValidateCurrency without the test of lines 382-384
ValidateCurrency_NoFallback(raw) ==
    LET typed == Join(Upper(Strip(raw)))
    IN  IF typed = "" THEN DefaultCurrency ELSE typed

\* target_currency after lines 379-384
ValidateCurrency(raw) ==
    LET typed == Join(Upper(Strip(raw)))
        code  == IF typed = "" THEN DefaultCurrency ELSE typed
    IN  IF code \notin DOMAIN exchange_rates THEN DefaultCurrency ELSE code

\* max_products after lines 387-388
ParseMaxProducts(raw) ==
    IF IsDigitText(Strip(raw)) THEN ParseInt(Strip(raw))
    ELSE DefaultMaxProducts

\* lines 371-396 and 87-91: the prompts, then the call of scrape_products
MainReadInputs ==
    /\ pc = "Idle"
    /\ \E rc \in RawCurrencyInputs, rm \in RawMaxInputs :
          LET typed == Join(Upper(Strip(rc)))
              code  == IF typed = "" THEN DefaultCurrency ELSE typed
          IN  /\ currency_input' = rc
              /\ target_currency' = ValidateCurrency(rc)
              /\ max_products' = ParseMaxProducts(rm)
              /\ log' = IF code \notin DOMAIN exchange_rates
                        THEN <<Line("Invalid currency. Using default", 0),
                               Line("Connecting", 0)>>
                        ELSE <<Line("Connecting", 0)>>
    /\ products' = <<>>
    /\ calls' = Append(calls, "scrape_products")
    /\ pc' = "Fetching"
    /\ UNCHANGED <<response, product_containers, i, j, converted_products,
                   timestamp, exchange_rate, now, written>>

\* lines 92-102: the fetch succeeds and the page is parsed
FetchOk ==
    /\ pc = "Fetching"
    /\ \E doc \in Documents :
          /\ product_containers' = doc
          /\ log' = Append(log, Line("Found products on the page", Len(doc)))
    /\ response' = "ok"
    /\ i' = 1
    /\ pc' = "Extracting"
    /\ UNCHANGED <<currency_input, target_currency, max_products, products, j,
                   converted_products, timestamp, exchange_rate, now, written,
                   calls>>

\* lines 96-100 and 153-155: the page is fetched but parsing it raises, and
\* scrape_products returns []
ParseFail ==
    /\ pc = "Fetching"
    /\ response' = "ok"
    /\ log' = Append(log, Line("Error scraping products", 0))
    /\ products' = <<>>
    /\ pc' = "ScrapeReturned"
    /\ UNCHANGED <<currency_input, target_currency, max_products,
                   product_containers, i, j, converted_products, timestamp,
                   exchange_rate, now, written, calls>>

\* lines 92-93 and 150-152: the fetch raises and scrape_products returns []
FetchFail ==
    /\ pc = "Fetching"
    /\ \E failure \in FetchFailures : response' = failure
    /\ log' = Append(log, Line("Connection error", 0))
    /\ products' = <<>>
    /\ pc' = "ScrapeReturned"
    /\ UNCHANGED <<currency_input, target_currency, max_products,
                   product_containers, i, j, converted_products, timestamp,
                   exchange_rate, now, written, calls>>

\* ScrapeLoopContinues with the limit counting the containers visited
ScrapeLoopContinues_CountVisited ==
    /\ i <= Len(product_containers)
    /\ i <= max_products

\* lines 105-107: the scrape loop goes on to container i
ScrapeLoopContinues ==
    /\ i <= Len(product_containers)
    /\ Len(products) < max_products

\* lines 105-145: one iteration of the scrape loop
ExtractStep ==
    /\ pc = "Extracting"
    /\ ScrapeLoopContinues
    /\ LET r == Extraction[product_containers[i]]
       IN  IF r.ok
           THEN /\ products' = Append(products, r.product)
                /\ log' = log
           ELSE /\ products' = products
                /\ log' = Append(log, Line("Error processing product", i))
    /\ i' = i + 1
    /\ UNCHANGED <<pc, currency_input, target_currency, max_products, response,
                   product_containers, j, converted_products, timestamp,
                   exchange_rate, now, written, calls>>

\* lines 105-107 and 147-148: the loop ends and scrape_products returns
ScrapeReturn ==
    /\ pc = "Extracting"
    /\ ~ScrapeLoopContinues
    /\ log' = Append(log, Line("Successfully scraped products", Len(products)))
    /\ pc' = "ScrapeReturned"
    /\ UNCHANGED <<currency_input, target_currency, max_products, response,
                   product_containers, i, products, j, converted_products,
                   timestamp, exchange_rate, now, written, calls>>

\* MainCheckProducts without the test of line 398
MainCheckProducts_NoGuard ==
    /\ pc = "ScrapeReturned"
    /\ calls' = Append(calls, "convert_prices")
    /\ converted_products' = <<>>
    /\ timestamp' = now
    /\ j' = 1
    /\ log' = Append(log, Line("Converting prices", 0))
    /\ pc' = "Converting"
    /\ UNCHANGED <<currency_input, target_currency, max_products, response,
                   product_containers, i, products, exchange_rate, now,
                   written>>

\* lines 398-403 and 168-171: main's test of the scrape result, then the
\* call of convert_prices
MainCheckProducts ==
    /\ pc = "ScrapeReturned"
    /\ IF products = <<>>
       THEN /\ log' = Append(log, Line("No products found. Exiting...", 0))
            /\ pc' = "DoneEmpty"
            /\ UNCHANGED <<calls, converted_products, timestamp, j>>
       ELSE /\ calls' = Append(calls, "convert_prices")
            /\ converted_products' = <<>>
            /\ timestamp' = now
            /\ j' = 1
            /\ log' = Append(log, Line("Converting prices", 0))
            /\ pc' = "Converting"
    /\ UNCHANGED <<currency_input, target_currency, max_products, response,
                   product_containers, i, products, exchange_rate, now,
                   written>>

\* lines 173-197: one iteration of the convert loop; the clock may advance
\* while it runs
ConvertStep ==
    /\ pc = "Converting"
    /\ j <= Len(products)
    /\ LET r == ConvertProduct(products[j], target_currency, timestamp,
                               exchange_rate)
       IN  /\ exchange_rate' = r.rate
           /\ IF r.ok
              THEN /\ converted_products' = Append(converted_products, r.record)
                   /\ log' = log
              ELSE /\ converted_products' = converted_products
                   /\ log' = Append(log, Line("Error converting price", j))
    /\ j' = j + 1
    /\ \E tick \in 0..1 : now' = IF now + tick > MaxClock THEN now ELSE now + tick
    /\ UNCHANGED <<pc, currency_input, target_currency, max_products, response,
                   product_containers, i, products, timestamp, written, calls>>

\* line 199: convert_prices returns
ConvertReturn ==
    /\ pc = "Converting"
    /\ j > Len(products)
    /\ pc' = "ConvertReturned"
    /\ UNCHANGED <<currency_input, target_currency, max_products, response,
                   product_containers, i, products, j, converted_products,
                   timestamp, exchange_rate, now, written, calls, log>>

\* lines 405-410: main's test of the conversion result
MainCheckConverted ==
    /\ pc = "ConvertReturned"
    /\ IF converted_products = <<>>
       THEN /\ log' = Append(log, Line("Error converting prices. Exiting...", 0))
            /\ pc' = "DoneEmpty"
       ELSE /\ log' = log
            /\ pc' = "DisplayTable"
    /\ UNCHANGED <<currency_input, target_currency, max_products, response,
                   product_containers, i, products, j, converted_products,
                   timestamp, exchange_rate, now, written, calls>>

\* lines 410 and 244-283: display_table
DisplayTable ==
    /\ pc = "DisplayTable"
    /\ calls' = Append(calls, "display_table")
    /\ log' = Append(log, IF converted_products = <<>>
                          THEN Line("No products to display", 0)
                          ELSE Line("PRODUCTS WITH CONVERTED PRICES",
                                    Len(converted_products)))
    /\ pc' = "SaveCsv"
    /\ UNCHANGED <<currency_input, target_currency, max_products, response,
                   product_containers, i, products, j, converted_products,
                   timestamp, exchange_rate, now, written>>

\* a save method: the file is written, or the write raises and is reported
SaveTo(method, destination, failure, next) ==
    /\ calls' = Append(calls, method)
    /\ \E io_ok \in BOOLEAN :
          IF io_ok
          THEN /\ written' = written \cup {destination}
               /\ log' = Append(log, Line("Data saved", 0))
          ELSE /\ written' = written
               /\ log' = Append(log, Line(failure, 0))
    /\ pc' = next
    /\ UNCHANGED <<currency_input, target_currency, max_products, response,
                   product_containers, i, products, j, converted_products,
                   timestamp, exchange_rate, now>>

\* lines 413 and 201-221: save_to_csv
SaveCsv ==
    /\ pc = "SaveCsv"
    /\ SaveTo("save_to_csv", "csv", "Error saving to CSV", "SaveJson")

\* lines 414 and 223-242: save_to_json
SaveJson ==
    /\ pc = "SaveJson"
    /\ SaveTo("save_to_json", "json", "Error saving to JSON", "PlotPrices")

\* lines 417-422 and 285-365: plot_prices, then the success message
PlotPrices ==
    /\ pc = "PlotPrices"
    /\ calls' = Append(calls, "plot_prices")
    /\ \E io_ok \in BOOLEAN :
          IF converted_products = <<>>
          THEN /\ written' = written
               /\ log' = log \o <<Line("No products to plot", 0),
                                  Line("completed successfully", 0)>>
          ELSE IF io_ok
          THEN /\ written' = written \cup {"png"}
               /\ log' = log \o <<Line("Price comparison chart saved", 0),
                                  Line("completed successfully", 0)>>
          ELSE /\ written' = written
               /\ log' = log \o <<Line("Error creating plot", 0),
                                  Line("completed successfully", 0)>>
    /\ pc' = "Done"
    /\ UNCHANGED <<currency_input, target_currency, max_products, response,
                   product_containers, i, products, j, converted_products,
                   timestamp, exchange_rate, now>>

Next ==
    \/ MainReadInputs
    \/ FetchOk
    \/ ParseFail
    \/ FetchFail
    \/ ExtractStep
    \/ ScrapeReturn
    \/ MainCheckProducts
    \/ ConvertStep
    \/ ConvertReturn
    \/ MainCheckConverted
    \/ DisplayTable
    \/ SaveCsv
    \/ SaveJson
    \/ PlotPrices

Spec == Init /\ [][Next]_vars

\* main() is sequential code: whenever a step is possible it is taken
FairSpec == Spec /\ WF_vars(Next)

-----------------------------------------------------------------------------
(* convert_prices on its own: any batch of records, any target code *)

GoodProduct ==
    [name |-> "A Light in the Attic",
     original_price |-> [tag |-> "float", cents |-> 5177],
     original_currency |-> "GBP", rating |-> "Three",
     availability |-> "In stock"]

\* the records a caller can pass to convert_prices
ProductRecords ==
    { GoodProduct,
      [GoodProduct EXCEPT !.name = "Soumission",
                          !.original_price = [tag |-> "float", cents |-> 1000],
                          !.original_currency = "USD"],
      [GoodProduct EXCEPT !.name = "Sharp Objects",
                          !.original_price = [tag |-> "float", cents |-> 4782],
                          !.original_currency = "XYZ"],
      [GoodProduct EXCEPT !.name = "Priced as text",
                          !.original_price = [tag |-> "str", cents |-> 0]],
      [GoodProduct EXCEPT !.name = "Priced as None",
                          !.original_price = [tag |-> "None", cents |-> 0]],
      [GoodProduct EXCEPT !.name = "No price key",
                          !.original_price = [tag |-> "absent", cents |-> 0]] }

ProductBatches == SeqsUpTo(ProductRecords, MaxBatch)

\* the target codes a caller can pass, in and out of the rate table
TargetCodes == {"KES", "GBP", "USD", "XYZ", "ABC"}

\* lines 168-171: convert_prices has been entered
InitConvert ==
    /\ pc = "Converting"
    /\ currency_input = <<>>
    /\ target_currency \in TargetCodes
    /\ max_products = 0
    /\ response = "none"
    /\ product_containers = <<>>
    /\ i = 1
    /\ products \in ProductBatches
    /\ j = 1
    /\ converted_products = <<>>
    /\ timestamp = 0
    /\ exchange_rate = NoRate
    /\ now = 0
    /\ written = {}
    /\ calls = <<"convert_prices">>
    /\ log = <<Line("Converting prices", 0)>>

NextConvert ==
    \/ ConvertStep
    \/ ConvertReturn

SpecConvert == InitConvert /\ [][NextConvert]_vars

-----------------------------------------------------------------------------
(* Vocabulary of the properties *)

Min(a, b) == IF a <= b THEN a ELSE b

Called(method) == \E k \in 1..Len(calls) : calls[k] = method

Logged(line) == \E k \in 1..Len(log) : log[k] = line

ExportMethods == {"display_table", "save_to_csv", "save_to_json", "plot_prices"}

\* positions at which convert_prices has returned to main
AfterConversion ==
    {"ConvertReturned", "DisplayTable", "SaveCsv", "SaveJson", "PlotPrices",
     "Done", "DoneEmpty"}

\* the stage of the pipeline a position of main() belongs to
Stage ==
    CASE pc = "Idle" -> "Idle"
      [] pc = "Fetching" -> "Fetching"
      [] pc = "Extracting" -> "Extracting"
      [] pc = "ScrapeReturned" ->
             IF response = "ok" THEN "Extracting" ELSE "Fetching"
      [] pc \in {"Converting", "ConvertReturned"} -> "Converting"
      [] pc \in {"DisplayTable", "SaveCsv", "SaveJson", "PlotPrices"} ->
             "Exporting"
      [] pc = "Done" -> "Done"
      [] pc = "DoneEmpty" -> "DoneEmpty"

-----------------------------------------------------------------------------
(* C1 *)

\* C1: no export or display operation is invoked, and nothing is written,
\* unless convert_prices has returned a non-empty list; and convert_prices
\* is not invoked when scrape_products returned no records.
C1_ExportsOnlyAfterNonEmptyConversion ==
    /\ ((\E m \in ExportMethods : Called(m)) \/ written # {})
          => /\ Called("convert_prices")
             /\ pc \in AfterConversion
             /\ converted_products # <<>>
    /\ Called("convert_prices") => products # <<>>
    /\ (pc = "DoneEmpty" /\ products = <<>>)
          => calls = <<"scrape_products">>

C1_Witness ==
    /\ pc = "Done"
    /\ Called("plot_prices")
    /\ written = {"csv", "json", "png"}
    /\ converted_products # <<>>

-----------------------------------------------------------------------------
(* C8 *)

\* the code the operator typed, as main() reads it (line 379)
TypedCode == Join(Upper(Strip(currency_input)))

\* C8: once the prompts are answered, an input that is not a key of the rate
\* table has been replaced by 'KES' and scrape_products has been called; the
\* target currency of convert_prices and of every output record is a key of
\* the rate table.
C8_TargetCurrencyIsTableKey ==
    pc # "Idle" =>
        /\ target_currency \in DOMAIN exchange_rates
        /\ TypedCode \notin DOMAIN exchange_rates => target_currency = "KES"
        /\ Called("scrape_products")
        /\ \A k \in 1..Len(converted_products) :
              /\ converted_products[k].target_currency = target_currency
              /\ converted_products[k].target_currency \in DOMAIN exchange_rates

C8_Witness ==
    /\ pc = "Done"
    /\ TypedCode = "XYZ"
    /\ converted_products # <<>>
    /\ converted_products[1].target_currency = "KES"

-----------------------------------------------------------------------------
(* C3 *)

\* the records of the containers of a page that extract without error, in
\* document order
RECURSIVE ExtractableRecords(_)
ExtractableRecords(doc) ==
    IF doc = <<>> THEN <<>>
    ELSE LET r == ExtractContainer(Head(doc))
         IN  (IF r.ok THEN <<r.product>> ELSE <<>>)
                 \o ExtractableRecords(Tail(doc))

\* C3: when scrape_products returns from a fetched page, its result is the
\* first min(max_products, n) of the n records that extract without error,
\* in document order; a skipped container does not use up the limit.
C3_LimitCountsProducedRecords ==
    (response = "ok" /\ pc # "Extracting") =>
        LET extractable == ExtractableRecords(product_containers)
        IN  products = SubSeq(extractable, 1,
                              Min(max_products, Len(extractable)))

C3_Witness ==
    /\ pc = "ScrapeReturned"
    /\ response = "ok"
    /\ Logged(Line("Error processing product", 1))
    /\ max_products = 1
    /\ Len(products) = 1

-----------------------------------------------------------------------------
(* C4, C5 *)

\* the containers the scrape loop has been through
Visited == IF response = "ok" THEN 1..(i - 1) ELSE {}

PricePresent(c) == c.price # <<>>
PriceNumeric(c) == IsFloatText(StripCurrencySymbols(Strip(c.price[1])))
NamePresent(c) == c.h3 /\ c.a
RatingWellFormed(c) == c.rating = <<>> \/ Len(c.rating[1]) >= 2

\* the record a container yields carries these values
Yields(c, name, cents, rating, availability) ==
    \E k \in 1..Len(products) :
        /\ products[k].name = name
        /\ products[k].original_price = [tag |-> "float", cents |-> cents]
        /\ products[k].original_currency = "GBP"
        /\ products[k].rating = rating
        /\ products[k].availability = availability

\* C4: a visited container whose price element is present but whose text is
\* not numeric once the currency symbols are stripped (its other elements
\* being well formed) is not skipped: it yields a record with
\* original_price = 0.0.
C4_NonNumericPriceDefaultsToZero ==
    \A k \in Visited :
        LET c == product_containers[k]
        IN  (/\ PricePresent(c) /\ ~PriceNumeric(c)
             /\ NamePresent(c) /\ c.title # <<>> /\ RatingWellFormed(c))
            => /\ ~Logged(Line("Error processing product", k))
               /\ \E n \in 1..Len(products) :
                     /\ products[n].name = c.title[1]
                     /\ products[n].original_price =
                            [tag |-> "float", cents |-> 0]

\* C5: a visited container from which the element of one of the four fields
\* is missing (the elements that are present being well formed) is not
\* skipped: it yields a record with the sentinel in that field, 'GBP' as
\* original_currency, and the other fields taken from the container.
C5_MissingFieldYieldsSentinel ==
    \A k \in Visited :
        LET c == product_containers[k]
        IN  (/\ ~NamePresent(c) \/ ~PricePresent(c) \/ c.rating = <<>>
                    \/ c.availability = <<>>
             /\ PricePresent(c) => PriceNumeric(c)
             /\ RatingWellFormed(c))
            => /\ ~Logged(Line("Error processing product", k))
               /\ Yields(c,
                    IF NamePresent(c) /\ c.title # <<>> THEN c.title[1]
                    ELSE "Unknown Product",
                    IF PricePresent(c)
                    THEN ParseFloat(StripCurrencySymbols(Strip(c.price[1])))
                    ELSE 0,
                    IF c.rating = <<>> THEN "No rating" ELSE c.rating[1][2],
                    IF c.availability = <<>> THEN "Unknown"
                    ELSE Join(Strip(c.availability[1])))

-----------------------------------------------------------------------------
(* C2 *)

\* what the caller of scrape_products holds, and what main() reports last
Outcome == [returned |-> products, message |-> log[Len(log)]]

\* the outcome of a run whose fetch succeeded and whose extraction yielded no
\* record
EmptyExtractionOutcome ==
    [returned |-> <<>>, message |-> Line("No products found. Exiting...", 0)]

\* every run that fetched a page and extracted nothing ends with
\* EmptyExtractionOutcome
EmptyExtractionOutcomeIsUniform ==
    (pc = "DoneEmpty" /\ response = "ok") => Outcome = EmptyExtractionOutcome

\* C2: a run whose fetch failed ends with an outcome that differs from the
\* outcome of a run that fetched a page and extracted no record.
C2_TransportFailureSignalledDistinctly ==
    (pc = "DoneEmpty" /\ response \in FetchFailures)
        => Outcome # EmptyExtractionOutcome

-----------------------------------------------------------------------------
(* C6 *)

\* the table entry of a code in hundredths, 1.0 for a code not in the table
TableEntryOrOne(code) ==
    CASE code = "USD" -> 100
      [] code = "KES" -> 15000
      [] code = "EUR" -> 85
      [] code = "GBP" -> 73
      [] code = "JPY" -> 11000
      [] code = "CAD" -> 125
      [] code = "AUD" -> 135
      [] code = "INR" -> 7500
      [] OTHER -> 100

\* C6: for the record convert_prices has just been through, whatever the
\* two codes, get_exchange_rate returned 1.0 exactly when they are equal
\* and otherwise rateTo / rateFrom, an absent code counting as 1.0; it did
\* not raise, so a record with a numeric price was converted with that rate.
C6_ExchangeRateTotalCrossRate ==
    (j > 1 /\ products[j - 1].original_price.tag # "absent") =>
        LET from == products[j - 1].original_currency
            to   == target_currency
        IN  /\ exchange_rate.den > 0
            /\ from = to => exchange_rate = [num |-> 1, den |-> 1]
            /\ from # to =>
                  exchange_rate.num * TableEntryOrOne(from)
                      = exchange_rate.den * TableEntryOrOne(to)
            /\ products[j - 1].original_price.tag = "float" =>
                  /\ ~Logged(Line("Error converting price", j - 1))
                  /\ converted_products # <<>>
                  /\ converted_products[Len(converted_products)].exchange_rate
                         = Round(10000 * TableEntryOrOne(to),
                                 IF from = to THEN TableEntryOrOne(to)
                                 ELSE TableEntryOrOne(from))

C6_Witness ==
    /\ pc = "ConvertReturned"
    /\ target_currency = "KES"
    /\ \E k \in 1..Len(converted_products) :
          /\ converted_products[k].original_currency = "XYZ"
          /\ converted_products[k].exchange_rate = 1500000
    /\ \E k \in 1..Len(converted_products) :
          /\ converted_products[k].original_currency = "GBP"
          /\ converted_products[k].exchange_rate = 2054795

-----------------------------------------------------------------------------
(* C7 *)

NumericPrice(p) == p.original_price.tag = "float"

\* C7: the output of convert_prices is, at every point of the loop, the
\* records gone through so far whose price converts, in input order and
\* with nothing in place of a skipped record; a skipped record does not end
\* the loop; and every output record carries the timestamp read before the
\* first record was processed, whatever the clock shows since.
C7_ConversionKeepsConvertibleInOrder ==
    LET done == SubSeq(products, 1, j - 1)
        kept == SelectSeq(done, NumericPrice)
    IN  /\ Len(converted_products) = Len(kept)
        /\ Len(converted_products) <= Len(products)
        /\ \A k \in 1..Len(converted_products) :
              /\ converted_products[k].name = kept[k].name
              /\ converted_products[k].original_price = kept[k].original_price
              /\ converted_products[k].original_currency
                     = kept[k].original_currency
              /\ converted_products[k].rating = kept[k].rating
              /\ converted_products[k].availability = kept[k].availability
              /\ converted_products[k].conversion_timestamp = 0
              /\ converted_products[k].conversion_timestamp = timestamp
        /\ pc = "ConvertReturned" => j = Len(products) + 1

C7_Witness ==
    /\ pc = "ConvertReturned"
    /\ Len(products) = 3
    /\ products[1].original_price.tag = "float"
    /\ products[2].original_price.tag = "str"
    /\ products[3].original_price.tag = "float"
    /\ Len(converted_products) = 2
    /\ now > 0

-----------------------------------------------------------------------------
(* C9 *)

\* an output record of the scenario: 51.77 GBP converted to KES
ScenarioRecord(r) ==
    /\ r.original_price = [tag |-> "float", cents |-> 5177]
    /\ r.original_currency = "GBP"
    /\ r.target_currency = "KES"

\* C9 as stated: the record of the scenario has exchange_rate 205.4795 and
\* converted_price 10639.63, give or take the last decimal.
C9_ScenarioAsStated ==
    \A k \in 1..Len(converted_products) :
        ScenarioRecord(converted_products[k]) =>
            /\ converted_products[k].exchange_rate = 2054795
            /\ converted_products[k].converted_price \in 1063962..1063964

\* C9 amended: the record of the scenario has exchange_rate 205.4795 and
\* converted_price 10637.67, which is 51.77 * (150.0 / 0.73) rounded to 2
\* decimals.
C9_ScenarioConvertedPrice ==
    \A k \in 1..Len(converted_products) :
        ScenarioRecord(converted_products[k]) =>
            /\ converted_products[k].exchange_rate = 2054795
            /\ converted_products[k].converted_price = 1063767

C9_Witness ==
    /\ pc = "Done"
    /\ \E k \in 1..Len(converted_products) :
          ScenarioRecord(converted_products[k])

-----------------------------------------------------------------------------
(* C10 *)

\* the stage changes of the state machine as stated
StatedStageChanges ==
    { <<"Idle", "Fetching">>, <<"Fetching", "Extracting">>,
      <<"Extracting", "Converting">>, <<"Converting", "Exporting">>,
      <<"Exporting", "Done">>,
      <<"Extracting", "DoneEmpty">>, <<"Converting", "DoneEmpty">> }

Terminated == pc \in {"Done", "DoneEmpty"}

====
